---------------------------- MODULE Spec2Model ----------------------------
(***************************************************************************)
(* A model of two parts of wmbusmeters:                                    *)
(*   - the Sharky TCH heat meter driver (src/src/meter_sharky_tch.cc):     *)
(*     its eight field slots, its registered prints, processContent and    *)
(*     the eight unit-checked getters;                                     *)
(*   - invokeShell (src/shell.cc): argv/env construction, fork, the child  *)
(*     branch (close stdin, execvpe) and the parent branch (waitpid,       *)
(*     warning on a non-zero exit status).                                 *)
(* Doubles are modelled as exact rationals <<numerator, denominator>>;     *)
(* an optional value is a sequence of length 0 or 1.                       *)
(***************************************************************************)
EXTENDS Integers, Sequences, FiniteSets, TLC

VARIABLES
    \* ---- one MeterSharkyTch instance, driven by one caller
    slots,          \* the eight double fields of the driver
    prints,         \* the PrintSpecs registered by addPrint
    history,        \* ghost: the telegrams handed to processContent so far
    explanations,   \* the annotations attached to the telegram last decoded
    lastGet,        \* the getter call made last, with what it returned
    \* ---- two decode passes into one instance
    mode,           \* "idle" | "serial" | "concurrent"
    recv,           \* the two telegrams, in receipt order
    tpc,            \* per pass: index of the next field block (9: done)
    \* ---- invokeShell
    program, args, envs,   \* the arguments of the call
    argv, env,             \* the arrays built at lines 30-49
    pid,                   \* fork's result in the parent
    pPc, cPc,              \* where the parent and the child are
    pStdin, cStdin,        \* descriptor 0 of each process
    execImage,             \* what execvpe started (<<>>: nothing)
    cExit,                 \* how the child ended (<<>>: it has not)
    status,                \* the status waitpid stored (<<>>: uninitialized)
    log                    \* the calls of warning() and error(), in order

meterVars == <<slots, prints, history, explanations, lastGet>>
concVars  == <<mode, recv, tpc>>
shellVars == <<program, args, envs, argv, env, pid, pPc, cPc, pStdin, cStdin,
               execImage, cExit, status, log>>
vars == <<meterVars, concVars, shellVars>>

-----------------------------------------------------------------------------
(* Exact rationals standing for double values.                             *)

Abs(n) == IF n < 0 THEN -n ELSE n

RECURSIVE GCD(_, _)
GCD(a, b) == IF b = 0 THEN a ELSE GCD(b, a % b)

\* The rational n/d in lowest terms with a positive denominator.
Rat(n, d) ==
    LET s == IF d < 0 THEN -1 ELSE 1
        g == GCD(Abs(n), Abs(d))
    IN <<(s * n) \div g, (s * d) \div g>>

Zero == <<0, 1>>
RAdd(x, y) == Rat(x[1] * y[2] + y[1] * x[2], x[2] * y[2])
RSub(x, y) == Rat(x[1] * y[2] - y[1] * x[2], x[2] * y[2])
RMul(x, y) == Rat(x[1] * y[1], x[2] * y[2])
RDiv(x, y) == Rat(x[1] * y[2], x[2] * y[1])

RECURSIVE Pow10(_)
Pow10(e) == IF e = 0 THEN <<1, 1>>
            ELSE IF e > 0 THEN RMul(<<10, 1>>, Pow10(e - 1))
            ELSE RDiv(Pow10(e + 1), <<10, 1>>)

-----------------------------------------------------------------------------
(* Units and quantities (units.h / units.cc are not among the source       *)
(* files; the table follows the specification's UnitConverter).            *)

Quantities == {"Energy", "Volume", "Flow", "Power", "Temperature", "Time"}

\* Per unit: its quantity and the affine map to the quantity's base unit,
\* base = value * mul + add.
UnitInfo(u) ==
    CASE u = "KWH"    -> [q |-> "Energy",      mul |-> <<1, 1>>,     add |-> Zero]
      [] u = "GJ"     -> [q |-> "Energy",      mul |-> <<2500, 9>>,  add |-> Zero]
      [] u = "M3"     -> [q |-> "Volume",      mul |-> <<1, 1>>,     add |-> Zero]
      [] u = "L"      -> [q |-> "Volume",      mul |-> <<1, 1000>>,  add |-> Zero]
      [] u = "M3H"    -> [q |-> "Flow",        mul |-> <<1, 1>>,     add |-> Zero]
      [] u = "KW"     -> [q |-> "Power",       mul |-> <<1, 1>>,     add |-> Zero]
      [] u = "W"      -> [q |-> "Power",       mul |-> <<1, 1000>>,  add |-> Zero]
      [] u = "C"      -> [q |-> "Temperature", mul |-> <<1, 1>>,     add |-> Zero]
      [] u = "F"      -> [q |-> "Temperature", mul |-> <<5, 9>>,     add |-> <<-160, 9>>]
      [] u = "Second" -> [q |-> "Time",        mul |-> <<1, 1>>,     add |-> Zero]
      [] u = "Hour"   -> [q |-> "Time",        mul |-> <<3600, 1>>,  add |-> Zero]

Units == {"KWH", "GJ", "M3", "L", "M3H", "KW", "W", "C", "F", "Second", "Hour"}

isQuantity(u, q) == UnitInfo(u).q = q

\* assertQuantity(u, q): TRUE when the call returns, FALSE when it signals the
\* contract-violation fault.
assertQuantity(u, q) == isQuantity(u, q)

\* convert(v, from, to): rebase to the base unit, then transform forward.
\* A returned double is <<x>>; <<>> is the contract-violation fault.
convert(v, from, to) ==
    IF UnitInfo(from).q # UnitInfo(to).q THEN <<>>
    ELSE LET base == RAdd(RMul(v, UnitInfo(from).mul), UnitInfo(from).add)
         IN <<RDiv(RSub(base, UnitInfo(to).add), UnitInfo(to).mul)>>

-----------------------------------------------------------------------------
(* Telegrams: a sequence of data records, each with its measurement type,  *)
(* value information, storage number, tariff, raw magnitude, decimal       *)
(* exponent and the offset of its bytes in the frame.                      *)

\* findKey(mt, vi, storagenr, tariff, &key, values): the key of the first
\* record, in telegram order, that matches all four; here the key is the
\* record's index and 0 stands for "not found" (findKey returns false).
findKey(mt, vi, storagenr, tariff, values) ==
    LET hits == {k \in DOMAIN values :
                    /\ values[k].mt = mt
                    /\ values[k].vi = vi
                    /\ values[k].storagenr = storagenr
                    /\ values[k].tariff = tariff}
    IN IF hits = {} THEN 0
       ELSE CHOOSE k \in hits : \A j \in hits : k <= j

\* extractDVdouble(values, key, &offset, &value): the record's offset and its
\* magnitude scaled by the decimal exponent of its value information.
extractDVdouble(values, key) ==
    [offset |-> values[key].offset,
     value  |-> RMul(<<values[key].mag, 1>>, Pow10(values[key].exp))]

\* t->addMoreExplanation(offset, fmt, value): one more annotation on the
\* telegram; fmt is kept as its label and the unit it prints.
addMoreExplanation(expl, offset, text, unit, value) ==
    Append(expl, [offset |-> offset, text |-> text, unit |-> unit,
                  value |-> value])

-----------------------------------------------------------------------------
(* MeterSharkyTch                                                          *)

SlotNames == <<"total_energy_kwh_", "total_volume_m3_", "volume_flow_m3h_",
               "power_w_", "flow_temperature_c_", "return_temperature_c_",
               "total_energy_tariff1_kwh_", "operating_time_t_">>

\* The eight fields are value-initialised ({}).
InitSlots == [n \in {SlotNames[i] : i \in DOMAIN SlotNames} |-> Zero]

\* addPrint(name, quantity, getter, help, field, json): one more PrintSpec.
addPrint(ps, name, quantity, getter) ==
    Append(ps, [name |-> name, quantity |-> quantity, getter |-> getter])

\* A variant of the constructor that registers volume_flow before
\* total_volume and declares power as Energy.
MeterSharkyTch_misregistered ==
    LET p1 == addPrint(<<>>, "total_energy_consumption", "Energy", "totalEnergyConsumption")
        p2 == addPrint(p1, "volume_flow", "Flow", "volumeFlow")
        p3 == addPrint(p2, "total_volume", "Volume", "totalVolume")
        p4 == addPrint(p3, "power", "Energy", "power")
        p5 == addPrint(p4, "flow_temperature", "Temperature", "flowTemperature")
        p6 == addPrint(p5, "return_temperature", "Temperature", "returnTemperature")
        p7 == addPrint(p6, "total_energy_consumption_tariff1", "Energy", "totalEnergyConsumptionTariff1")
    IN addPrint(p7, "operating_time", "Time", "operatingTime")

\* The constructor: the prints it registers, in order.
MeterSharkyTch ==
    LET p1 == addPrint(<<>>, "total_energy_consumption", "Energy", "totalEnergyConsumption")
        p2 == addPrint(p1, "total_volume", "Volume", "totalVolume")
        p3 == addPrint(p2, "volume_flow", "Flow", "volumeFlow")
        p4 == addPrint(p3, "power", "Power", "power")
        p5 == addPrint(p4, "flow_temperature", "Temperature", "flowTemperature")
        p6 == addPrint(p5, "return_temperature", "Temperature", "returnTemperature")
        p7 == addPrint(p6, "total_energy_consumption_tariff1", "Energy", "totalEnergyConsumptionTariff1")
    IN addPrint(p7, "operating_time", "Time", "operatingTime")

\* ---- the getters: a returned double is <<x>>, the fault of assertQuantity
\* is <<>>.

totalEnergyConsumption(s, u) ==
    IF ~assertQuantity(u, "Energy") THEN <<>>
    ELSE convert(s["total_energy_kwh_"], "KWH", u)

totalVolume(s, u) ==
    IF ~assertQuantity(u, "Volume") THEN <<>>
    ELSE convert(s["total_volume_m3_"], "M3", u)

\* volumeFlow with the assertion of totalVolume pasted in.
volumeFlow_assertsVolume(s, u) ==
    IF ~assertQuantity(u, "Volume") THEN <<>>
    ELSE convert(s["volume_flow_m3h_"], "M3H", u)

volumeFlow(s, u) ==
    IF ~assertQuantity(u, "Flow") THEN <<>>
    ELSE convert(s["volume_flow_m3h_"], "M3H", u)

power(s, u) ==
    IF ~assertQuantity(u, "Power") THEN <<>>
    ELSE convert(s["power_w_"], "KW", u)

flowTemperature(s, u) ==
    IF ~assertQuantity(u, "Temperature") THEN <<>>
    ELSE convert(s["flow_temperature_c_"], "C", u)

returnTemperature(s, u) ==
    IF ~assertQuantity(u, "Temperature") THEN <<>>
    ELSE convert(s["return_temperature_c_"], "C", u)

totalEnergyConsumptionTariff1(s, u) ==
    IF ~assertQuantity(u, "Energy") THEN <<>>
    ELSE convert(s["total_energy_tariff1_kwh_"], "KWH", u)

operatingTime(s, u) ==
    IF ~assertQuantity(u, "Time") THEN <<>>
    ELSE convert(s["operating_time_t_"], "Second", u)

\* The lambda [&](Unit u){ return <getter>(u); } bound to a print.
CallGetter(g, s, u) ==
    CASE g = "totalEnergyConsumption"        -> totalEnergyConsumption(s, u)
      [] g = "totalVolume"                   -> totalVolume(s, u)
      [] g = "volumeFlow"                    -> volumeFlow(s, u)
      [] g = "power"                         -> power(s, u)
      [] g = "flowTemperature"               -> flowTemperature(s, u)
      [] g = "returnTemperature"             -> returnTemperature(s, u)
      [] g = "totalEnergyConsumptionTariff1" -> totalEnergyConsumptionTariff1(s, u)
      [] g = "operatingTime"                 -> operatingTime(s, u)

\* ---- processContent: eight blocks, each findKey / extractDVdouble /
\* addMoreExplanation on one slot.

\* The blocks with the tariff of the seventh copied from the first.
FieldBlock_tariffCopied(i) ==
    CASE i = 1 -> [mt |-> "Instantaneous", vi |-> "EnergyWh", storagenr |-> 0, tariff |-> 0,
                   slot |-> "total_energy_kwh_", text |-> "total energy consumption", unit |-> "KWH"]
      [] i = 2 -> [mt |-> "Instantaneous", vi |-> "Volume", storagenr |-> 0, tariff |-> 0,
                   slot |-> "total_volume_m3_", text |-> "total volume", unit |-> "M3"]
      [] i = 3 -> [mt |-> "Instantaneous", vi |-> "VolumeFlow", storagenr |-> 0, tariff |-> 0,
                   slot |-> "volume_flow_m3h_", text |-> "volume flow", unit |-> "M3H"]
      [] i = 4 -> [mt |-> "Instantaneous", vi |-> "PowerW", storagenr |-> 0, tariff |-> 0,
                   slot |-> "power_w_", text |-> "power", unit |-> "W"]
      [] i = 5 -> [mt |-> "Instantaneous", vi |-> "FlowTemperature", storagenr |-> 0, tariff |-> 0,
                   slot |-> "flow_temperature_c_", text |-> "flow temperature", unit |-> "C"]
      [] i = 6 -> [mt |-> "Instantaneous", vi |-> "ReturnTemperature", storagenr |-> 0, tariff |-> 0,
                   slot |-> "return_temperature_c_", text |-> "return temperature", unit |-> "C"]
      [] i = 7 -> [mt |-> "Instantaneous", vi |-> "EnergyWh", storagenr |-> 0, tariff |-> 0,
                   slot |-> "total_energy_tariff1_kwh_", text |-> "total energy tariff 1", unit |-> "KWH"]
      [] i = 8 -> [mt |-> "Instantaneous", vi |-> "OperatingTime", storagenr |-> 0, tariff |-> 0,
                   slot |-> "operating_time_t_", text |-> "operating time", unit |-> "Second"]

\* Block i of processContent: the selector handed to findKey, the slot that
\* extractDVdouble writes, and the label and unit of the annotation.
FieldBlock(i) ==
    CASE i = 1 -> [mt |-> "Instantaneous", vi |-> "EnergyWh", storagenr |-> 0, tariff |-> 0,
                   slot |-> "total_energy_kwh_", text |-> "total energy consumption", unit |-> "KWH"]
      [] i = 2 -> [mt |-> "Instantaneous", vi |-> "Volume", storagenr |-> 0, tariff |-> 0,
                   slot |-> "total_volume_m3_", text |-> "total volume", unit |-> "M3"]
      [] i = 3 -> [mt |-> "Instantaneous", vi |-> "VolumeFlow", storagenr |-> 0, tariff |-> 0,
                   slot |-> "volume_flow_m3h_", text |-> "volume flow", unit |-> "M3H"]
      [] i = 4 -> [mt |-> "Instantaneous", vi |-> "PowerW", storagenr |-> 0, tariff |-> 0,
                   slot |-> "power_w_", text |-> "power", unit |-> "W"]
      [] i = 5 -> [mt |-> "Instantaneous", vi |-> "FlowTemperature", storagenr |-> 0, tariff |-> 0,
                   slot |-> "flow_temperature_c_", text |-> "flow temperature", unit |-> "C"]
      [] i = 6 -> [mt |-> "Instantaneous", vi |-> "ReturnTemperature", storagenr |-> 0, tariff |-> 0,
                   slot |-> "return_temperature_c_", text |-> "return temperature", unit |-> "C"]
      [] i = 7 -> [mt |-> "Instantaneous", vi |-> "EnergyWh", storagenr |-> 0, tariff |-> 1,
                   slot |-> "total_energy_tariff1_kwh_", text |-> "total energy tariff 1", unit |-> "KWH"]
      [] i = 8 -> [mt |-> "Instantaneous", vi |-> "OperatingTime", storagenr |-> 0, tariff |-> 0,
                   slot |-> "operating_time_t_", text |-> "operating time", unit |-> "Second"]

NumBlocks == Len(SlotNames)

\* A block that clears its slot when the telegram has no matching record.
processBlock_clearsAbsent(st, values, i) ==
    LET b   == FieldBlock(i)
        key == findKey(b.mt, b.vi, b.storagenr, b.tariff, values)
    IN IF key # 0
       THEN LET x == extractDVdouble(values, key)
            IN [slots |-> [st.slots EXCEPT ![b.slot] = x.value],
                expl  |-> addMoreExplanation(st.expl, x.offset, b.text, b.unit, x.value)]
       ELSE [st EXCEPT !.slots[b.slot] = Zero]

\* One if-block of processContent, run on the state st = [slots, expl].
processBlock(st, values, i) ==
    LET b   == FieldBlock(i)
        key == findKey(b.mt, b.vi, b.storagenr, b.tariff, values)
    IN IF key # 0
       THEN LET x == extractDVdouble(values, key)
            IN [slots |-> [st.slots EXCEPT ![b.slot] = x.value],
                expl  |-> addMoreExplanation(st.expl, x.offset, b.text, b.unit, x.value)]
       ELSE st

RECURSIVE processBlocks(_, _, _)
processBlocks(st, values, i) ==
    IF i > NumBlocks THEN st
    ELSE processBlocks(processBlock(st, values, i), values, i + 1)

\* processContent(t): the slots and the telegram's annotations afterwards.
processContent(s, values) == processBlocks([slots |-> s, expl |-> <<>>], values, 1)

-----------------------------------------------------------------------------
(* The telegrams the caller decodes.                                       *)

DV(mt, vi, storagenr, tariff, mag, exp) ==
    [mt |-> mt, vi |-> vi, storagenr |-> storagenr, tariff |-> tariff,
     mag |-> mag, exp |-> exp, offset |-> 0]

\* The records of a frame in order, each with the offset of its bytes.
Frame(recs) == [k \in DOMAIN recs |-> [recs[k] EXCEPT !.offset = 9 + 6 * k]]

\* The frame of the comment in processContent (energy, volume, flow, power,
\* the two temperatures, tariff-1 energy, operating time).
SampleFrame ==
    Frame(<<DV("Instantaneous", "EnergyWh", 0, 0, 22052, 0),
            DV("Instantaneous", "Volume", 0, 0, 9654, -3),
            DV("Instantaneous", "VolumeFlow", 0, 0, 928, -3),
            DV("Instantaneous", "PowerW", 0, 0, 26470, 0),
            DV("Instantaneous", "FlowTemperature", 0, 0, 934, -1),
            DV("Instantaneous", "ReturnTemperature", 0, 0, 684, -1),
            DV("Instantaneous", "EnergyWh", 0, 1, 0, 0),
            DV("Instantaneous", "OperatingTime", 0, 0, 0, 0)>>)

Telegrams ==
    { SampleFrame,
      \* no record at all
      <<>>,
      \* energy and return temperature, then energy alone
      Frame(<<DV("Instantaneous", "EnergyWh", 0, 0, 1205, -1),
              DV("Instantaneous", "ReturnTemperature", 0, 0, 184, -1)>>),
      Frame(<<DV("Instantaneous", "EnergyWh", 0, 0, 121, 0)>>),
      \* tariff 0 and tariff 1 energy, in both orders
      Frame(<<DV("Instantaneous", "EnergyWh", 0, 0, 50, 0),
              DV("Instantaneous", "EnergyWh", 0, 1, 5, 0)>>),
      Frame(<<DV("Instantaneous", "EnergyWh", 0, 1, 6, 0),
              DV("Instantaneous", "EnergyWh", 0, 0, 60, 0)>>),
      \* records no block selects (a maximum, a historical slot, other
      \* tariffs) among records of power, flow, volume and tariff-1 energy
      Frame(<<DV("Maximum", "EnergyWh", 0, 0, 77, 0),
              DV("Instantaneous", "EnergyWh", 1, 0, 88, 0),
              DV("Instantaneous", "PowerW", 0, 0, 1500, 0),
              DV("Instantaneous", "Volume", 0, 1, 99, 0),
              DV("Instantaneous", "EnergyWh", 0, 2, 66, 0),
              DV("Instantaneous", "VolumeFlow", 0, 0, 25, -1),
              DV("Instantaneous", "EnergyWh", 0, 1, 9, 0),
              DV("Instantaneous", "Volume", 0, 0, 3, 0)>>),
      \* two records of one identity
      Frame(<<DV("Instantaneous", "OperatingTime", 0, 0, 7200, 0),
              DV("Instantaneous", "OperatingTime", 0, 0, 8, 0),
              DV("Instantaneous", "FlowTemperature", 0, 0, 600, -1)>>) }

\* How many telegrams the caller decodes in one run.
MaxTelegrams == 2

-----------------------------------------------------------------------------
(* The driver used by one caller: telegrams one at a time, getters between. *)

NoGet == [name |-> "", unit |-> "", returned |-> <<>>, called |-> FALSE,
          before |-> InitSlots]

IdleShell ==
    /\ program = "" /\ args = <<>> /\ envs = <<>>
    /\ argv = <<>> /\ env = <<>> /\ pid = 0
    /\ pPc = "idle" /\ cPc = "none"
    /\ pStdin = "open" /\ cStdin = "none"
    /\ execImage = <<>> /\ cExit = <<>> /\ status = <<>> /\ log = <<>>

IdleConc == mode = "idle" /\ recv = <<>> /\ tpc = <<>>

InitMeter ==
    /\ slots = InitSlots
    /\ prints = MeterSharkyTch
    /\ history = <<>>
    /\ explanations = <<>>
    /\ lastGet = NoGet

Init == InitMeter /\ IdleConc /\ IdleShell

\* The caller hands telegram t to processContent.
ProcessContent(t) ==
    /\ Len(history) < MaxTelegrams
    /\ ~lastGet.called
    /\ LET st == processContent(slots, t)
       IN /\ slots' = st.slots
          /\ explanations' = st.expl
    /\ history' = Append(history, t)
    /\ lastGet' = NoGet
    /\ UNCHANGED <<prints, concVars, shellVars>>

\* The caller reads print k in unit u through the registered lambda.
GetPrint(k, u) ==
    /\ ~lastGet.called
    /\ lastGet' = [name |-> prints[k].name, unit |-> u,
                   returned |-> CallGetter(prints[k].getter, slots, u),
                   called |-> TRUE, before |-> slots]
    /\ UNCHANGED <<slots, prints, history, explanations, concVars, shellVars>>

\* The caller has used the double it was returned (or handled the fault).
GetDone ==
    /\ lastGet.called
    /\ lastGet' = NoGet
    /\ UNCHANGED <<slots, prints, history, explanations, concVars, shellVars>>

Next ==
    \/ \E t \in Telegrams : ProcessContent(t)
    \/ \E k \in DOMAIN prints, u \in Units : GetPrint(k, u)
    \/ GetDone

Spec == Init /\ [][Next]_vars

-----------------------------------------------------------------------------
(* Properties of the driver under Spec.                                    *)

\* The scaled value a data record carries.
RecordValue(r) == RMul(<<r.mag, 1>>, Pow10(r.exp))

\* The records of a telegram that block i selects.
MatchingRecords(values, i) ==
    {k \in DOMAIN values :
        /\ values[k].mt = FieldBlock(i).mt
        /\ values[k].vi = FieldBlock(i).vi
        /\ values[k].storagenr = FieldBlock(i).storagenr
        /\ values[k].tariff = FieldBlock(i).tariff}

SetMin(S) == CHOOSE k \in S : \A j \in S : k <= j
SetMax(S) == CHOOSE k \in S : \A j \in S : k >= j

\* The telegrams of the history, by position, that carry a record for block i.
TelegramsWith(h, i) == {n \in DOMAIN h : MatchingRecords(h[n], i) # {}}

\* C1: after any sequence of processContent calls, each of the eight slots
\* holds the value decoded from the most recent telegram that carried a
\* matching record for it (the first such record of that telegram), and zero
\* when no telegram so far carried one; a telegram lacking the record leaves
\* the slot as it was.
C1_LastWriteWinsPerField ==
    \A i \in 1..NumBlocks :
        LET with == TelegramsWith(history, i)
        IN slots[FieldBlock(i).slot] =
              IF with = {} THEN Zero
              ELSE LET t == history[SetMax(with)]
                   IN RecordValue(t[SetMin(MatchingRecords(t, i))])

\* C1 witness: energy 120.5 kWh and return temperature 18.4 C were decoded,
\* then a telegram with energy 121 kWh alone: the energy slot holds 121 and
\* the return temperature still holds 18.4.
C1_Witness_PartialUpdate ==
    /\ Len(history) = 2
    /\ MatchingRecords(history[1], 6) # {}
    /\ MatchingRecords(history[2], 6) = {}
    /\ MatchingRecords(history[2], 1) # {}
    /\ slots["total_energy_kwh_"] = <<121, 1>>
    /\ slots["return_temperature_c_"] = <<92, 5>>

IsEnergyAt(r, tariff) ==
    /\ r.mt = "Instantaneous" /\ r.vi = "EnergyWh"
    /\ r.storagenr = 0 /\ r.tariff = tariff

\* C2: when the telegram decoded last carries exactly one instantaneous
\* energy record at storage 0 / tariff 0 and exactly one at storage 0 /
\* tariff 1, in either order, the total-energy slot holds the tariff-0 value
\* and the tariff-1 slot holds the tariff-1 value, and each is annotated at
\* the offset of its own record.
C2_TariffsNotConflated ==
    history # <<>> =>
        LET t  == history[Len(history)]
            e0 == {k \in DOMAIN t : IsEnergyAt(t[k], 0)}
            e1 == {k \in DOMAIN t : IsEnergyAt(t[k], 1)}
        IN (Cardinality(e0) = 1 /\ Cardinality(e1) = 1) =>
              LET a == CHOOSE k \in e0 : TRUE
                  b == CHOOSE k \in e1 : TRUE
              IN /\ slots["total_energy_kwh_"] = RecordValue(t[a])
                 /\ slots["total_energy_tariff1_kwh_"] = RecordValue(t[b])
                 /\ \E x \in DOMAIN explanations :
                       /\ explanations[x].text = "total energy consumption"
                       /\ explanations[x].offset = t[a].offset
                       /\ explanations[x].value = RecordValue(t[a])
                 /\ \E x \in DOMAIN explanations :
                       /\ explanations[x].text = "total energy tariff 1"
                       /\ explanations[x].offset = t[b].offset
                       /\ explanations[x].value = RecordValue(t[b])

\* C2 witness: the telegram decoded last carries the tariff-1 record (6 kWh)
\* before the tariff-0 record (60 kWh), and the two slots hold 60 and 6.
C2_Witness_Tariff1First ==
    /\ history # <<>>
    /\ LET t == history[Len(history)]
       IN /\ Len(t) = 2
          /\ IsEnergyAt(t[1], 1)
          /\ IsEnergyAt(t[2], 0)
    /\ slots["total_energy_kwh_"] = <<60, 1>>
    /\ slots["total_energy_tariff1_kwh_"] = <<6, 1>>

\* The slot behind each registered output.
OutputSlot(name) ==
    CASE name = "total_energy_consumption"         -> "total_energy_kwh_"
      [] name = "total_volume"                     -> "total_volume_m3_"
      [] name = "volume_flow"                      -> "volume_flow_m3h_"
      [] name = "power"                            -> "power_w_"
      [] name = "flow_temperature"                 -> "flow_temperature_c_"
      [] name = "return_temperature"               -> "return_temperature_c_"
      [] name = "total_energy_consumption_tariff1" -> "total_energy_tariff1_kwh_"
      [] name = "operating_time"                   -> "operating_time_t_"

DeclaredQuantity(name) ==
    LET k == CHOOSE j \in DOMAIN prints : prints[j].name = name
    IN prints[k].quantity

\* C3: a getter called with a unit whose quantity differs from the declared
\* quantity of its output signals the fault and returns no number; called
\* with a unit of the declared quantity it returns the stored slot value
\* converted into that unit (from some unit of the quantity), and in both
\* cases the slots are as they were before the call.
C3_GetterChecksQuantity ==
    lastGet.called =>
        LET q == DeclaredQuantity(lastGet.name)
            v == lastGet.before[OutputSlot(lastGet.name)]
        IN /\ UnitInfo(lastGet.unit).q # q => lastGet.returned = <<>>
           /\ UnitInfo(lastGet.unit).q = q =>
                 /\ Len(lastGet.returned) = 1
                 /\ \E from \in Units :
                       /\ UnitInfo(from).q = q
                       /\ lastGet.returned = convert(v, from, lastGet.unit)
           /\ slots = lastGet.before

\* C3 witness: with a non-zero power stored, power is requested in kWh and
\* the getter faults.
C3_Witness_WrongQuantity ==
    /\ lastGet.called
    /\ lastGet.name = "power"
    /\ lastGet.unit = "KWH"
    /\ lastGet.returned = <<>>
    /\ slots["power_w_"] # Zero

\* C8: the registered outputs are the eight PrintSpecs, in the order and with
\* the quantities of the constructor, whatever has been decoded or read.
C8_PrintsFixed ==
    [k \in DOMAIN prints |-> <<prints[k].name, prints[k].quantity>>] =
        << <<"total_energy_consumption", "Energy">>,
           <<"total_volume", "Volume">>,
           <<"volume_flow", "Flow">>,
           <<"power", "Power">>,
           <<"flow_temperature", "Temperature">>,
           <<"return_temperature", "Temperature">>,
           <<"total_energy_consumption_tariff1", "Energy">>,
           <<"operating_time", "Time">> >>

\* C8 witness: two telegrams were decoded and a getter has been called, and
\* eight prints are registered.
C8_Witness_AfterUse ==
    /\ Len(history) >= 2
    /\ lastGet.called
    /\ Len(prints) = NumBlocks

\* The unit in which processContent annotates the slot.
AnnotatedUnit(slot) ==
    FieldBlock(CHOOSE i \in 1..NumBlocks : FieldBlock(i).slot = slot).unit

\* C10: reading an output in the unit in which processContent stores and
\* annotates its slot returns the stored value unchanged.
C10_GetterUsesStoredUnit ==
    (lastGet.called /\ lastGet.unit = AnnotatedUnit(OutputSlot(lastGet.name)))
        => lastGet.returned = <<lastGet.before[OutputSlot(lastGet.name)]>>

-----------------------------------------------------------------------------
(* Two decode passes into one driver instance.  processContent takes no    *)
(* lock: a pass is a sequence of eight blocks, each of which may write one *)
(* slot.  In mode "serial" the caller decodes the two telegrams one at a   *)
(* time in receipt order; in mode "concurrent" it starts both passes and   *)
(* their blocks interleave.                                                *)

PassDone == NumBlocks + 1

InitConc ==
    /\ slots = InitSlots
    /\ prints = MeterSharkyTch
    /\ history = <<>>
    /\ explanations = << <<>>, <<>> >>
    /\ lastGet = NoGet
    /\ mode \in {"serial", "concurrent"}
    /\ recv \in {<<t1, t2>> : t1 \in Telegrams, t2 \in Telegrams}
    /\ tpc = <<0, 0>>
    /\ IdleShell

\* The caller enters processContent for pass p (1: the telegram received
\* first).  A serializing caller starts the second pass after the first has
\* returned.
BeginPass(p) ==
    /\ tpc[p] = 0
    /\ mode = "serial" => (p = 1 \/ tpc[1] = PassDone)
    /\ tpc' = [tpc EXCEPT ![p] = 1]
    /\ history' = Append(history, recv[p])
    /\ UNCHANGED <<slots, prints, explanations, lastGet, mode, recv, shellVars>>

\* Pass p runs its next if-block on the shared slots.
PassBlock(p) ==
    /\ tpc[p] \in 1..NumBlocks
    /\ LET st == processBlock([slots |-> slots, expl |-> explanations[p]],
                              recv[p], tpc[p])
       IN /\ slots' = st.slots
          /\ explanations' = [explanations EXCEPT ![p] = st.expl]
    /\ tpc' = [tpc EXCEPT ![p] = tpc[p] + 1]
    /\ UNCHANGED <<prints, history, lastGet, mode, recv, shellVars>>

NextConc == \E p \in {1, 2} : BeginPass(p) \/ PassBlock(p)

SpecConc == InitConc /\ [][NextConc]_vars

\* What decoding the telegrams of h one after the other leaves in the slots:
\* per field, the value of the last telegram that carries it.
DecodedInOrder(h) ==
    [n \in {SlotNames[i] : i \in DOMAIN SlotNames} |->
        LET i    == CHOOSE j \in 1..NumBlocks : FieldBlock(j).slot = n
            with == TelegramsWith(h, i)
        IN IF with = {} THEN Zero
           ELSE LET t == h[SetMax(with)]
                IN RecordValue(t[SetMin(MatchingRecords(t, i))])]

\* The fields both telegrams carry, with different values.
Contended(t1, t2) ==
    {i \in 1..NumBlocks :
        /\ MatchingRecords(t1, i) # {}
        /\ MatchingRecords(t2, i) # {}
        /\ DecodedInOrder(<<t1>>)[FieldBlock(i).slot]
              # DecodedInOrder(<<t2>>)[FieldBlock(i).slot]}

\* C9 (serialized part): when the caller serializes the two passes, the slots
\* after both equal the result of decoding the telegrams in receipt order,
\* and the first pass was over before the second began.
C9_SerializedIsReceiptOrder ==
    mode = "serial" =>
        /\ tpc[2] # 0 => tpc[1] = PassDone
        /\ tpc = <<PassDone, PassDone>> => slots = DecodedInOrder(recv)

\* C9 (concurrent part, the witness): two interleaved passes over telegrams
\* that share at least two fields with different values have both returned,
\* and the slots equal neither serial result.
C9_Witness_NeitherOrder ==
    /\ mode = "concurrent"
    /\ tpc = <<PassDone, PassDone>>
    /\ Cardinality(Contended(recv[1], recv[2])) >= 2
    /\ slots # DecodedInOrder(<<recv[1], recv[2]>>)
    /\ slots # DecodedInOrder(<<recv[2], recv[1]>>)

-----------------------------------------------------------------------------
(* invokeShell(program, args, envs)                                        *)

\* Entries of a const char* array: a string, the terminating NULL, or a cell
\* the code never wrote.
NullPtr == "<NULL>"
Unwritten == "<unwritten>"

ArgStrings == {"-c", "echo"}
EnvStrings == {"METER_ID=1", "METER_JSON={}"}
Programs == {"/bin/sh", "hook"}

\* The longest args and envs vectors a call is made with.
MaxArgs == 2
MaxEnvs == 2

SeqsUpTo(S, n) == UNION {[1..m -> S] : m \in 0..n}

\* Position k of a sequence stands for cell k-1 of the C array.
RECURSIVE CopyStrings(_, _, _, _)
\* for (auto &x : items) { arr[i] = x.c_str(); i++; }  from item k on; gives
\* the array and the final i.
CopyStrings(arr, items, i, k) ==
    IF k > Len(items) THEN [arr |-> arr, i |-> i]
    ELSE CopyStrings([arr EXCEPT ![i + 1] = items[k]], items, i + 1, k + 1)

\* Lines 30-39: new const char*[args.size()+2]; argv[0] = program; i = 1;
\* the loop; argv[i] = NULL.
BuildArgv(prog, as) ==
    LET a0 == [k \in 1..(Len(as) + 2) |-> Unwritten]
        a1 == [a0 EXCEPT ![1] = prog]
        lp == CopyStrings(a1, as, 1, 1)
    IN [lp.arr EXCEPT ![lp.i + 1] = NullPtr]

\* The environment built with the loop index left at 1, as for argv.
BuildEnv_startsAtOne(prog, es) ==
    LET e0 == [k \in 1..(Len(es) + 1) |-> Unwritten]
        e1 == [e0 EXCEPT ![1] = prog]
        lp == CopyStrings(e1, es, 1, 1)
    IN [lp.arr EXCEPT ![lp.i + 1] = NullPtr]

\* Lines 41-49: new const char*[envs.size()+1]; env[0] = program; i = 0;
\* the loop; env[i] = NULL.
BuildEnv(prog, es) ==
    LET e0 == [k \in 1..(Len(es) + 1) |-> Unwritten]
        e1 == [e0 EXCEPT ![1] = prog]
        lp == CopyStrings(e1, es, 0, 1)
    IN [lp.arr EXCEPT ![lp.i + 1] = NullPtr]

\* What execvpe reads from a NULL-terminated array: the cells before the
\* first NULL (all cells when there is none).
CStrings(arr) ==
    LET nulls == {k \in DOMAIN arr : arr[k] = NullPtr}
        n     == IF nulls = {} THEN Len(arr)
                 ELSE (CHOOSE k \in nulls : \A j \in nulls : k <= j) - 1
    IN SubSeq(arr, 1, n)

\* waitpid(pid, &status, WNOHANG): returns at once.
waitpidReturns_nohang(childPc) == TRUE

\* waitpid(pid, &status, 0) returns once the child has terminated.
waitpidReturns(childPc) == childPc = "terminated"

WIFEXITED(st) == st # <<>> /\ st[1].exited
WEXITSTATUS(st) == st[1].code

\* Lines 66-73 with the test of rc dropped.
checkStatus_warnsAlways(st) ==
    IF WIFEXITED(st)
    THEN <<[who |-> "parent", level |-> "warning", msg |-> "exited with non-zero return code"]>>
    ELSE <<>>

\* Lines 66-73: what the parent logs for the status waitpid stored.
checkStatus(st) ==
    IF WIFEXITED(st)
    THEN IF WEXITSTATUS(st) # 0
         THEN <<[who |-> "parent", level |-> "warning", msg |-> "exited with non-zero return code"]>>
         ELSE <<>>
    ELSE <<>>

\* The ways a started program can end: exit(code), or death by a signal.
ChildEndings ==
    {[exited |-> TRUE, code |-> c] : c \in {0, 1, 2}}
        \cup {[exited |-> FALSE, code |-> 0]}

\* error(fmt, ...): logs and terminates the calling process with status 1.
ErrorExit == [exited |-> TRUE, code |-> 1]

InitShell ==
    /\ InitMeter /\ IdleConc
    /\ program \in Programs
    /\ args \in SeqsUpTo(ArgStrings, MaxArgs)
    /\ envs \in SeqsUpTo(EnvStrings, MaxEnvs)
    /\ argv = <<>> /\ env = <<>> /\ pid = 0
    /\ pPc = "argv" /\ cPc = "none"
    /\ pStdin = "open" /\ cStdin = "none"
    /\ execImage = <<>> /\ cExit = <<>> /\ status = <<>> /\ log = <<>>

\* Lines 30-39.
MakeArgv ==
    /\ pPc = "argv"
    /\ argv' = BuildArgv(program, args)
    /\ pPc' = "env"
    /\ UNCHANGED <<meterVars, concVars, program, args, envs, env, pid, cPc,
                   pStdin, cStdin, execImage, cExit, status, log>>

\* Lines 41-49.
MakeEnv ==
    /\ pPc = "env"
    /\ env' = BuildEnv(program, envs)
    /\ pPc' = "fork"
    /\ UNCHANGED <<meterVars, concVars, program, args, envs, argv, pid, cPc,
                   pStdin, cStdin, execImage, cExit, status, log>>

\* Line 51, fork() succeeds: the child starts at line 55 with a copy of the
\* descriptors; the parent goes on to waitpid.
ForkOk ==
    /\ pPc = "fork"
    /\ pid' = 1
    /\ cPc' = "close"
    /\ cStdin' = pStdin
    /\ pPc' = "wait"
    /\ UNCHANGED <<meterVars, concVars, program, args, envs, argv, env,
                   pStdin, execImage, cExit, status, log>>

\* Line 51, fork() fails: pid is -1 and no child exists.
ForkFails ==
    /\ pPc = "fork"
    /\ pid' = -1
    /\ pPc' = "forkfailed"
    /\ UNCHANGED <<meterVars, concVars, program, args, envs, argv, env, cPc,
                   pStdin, cStdin, execImage, cExit, status, log>>

\* Lines 60-62: error("Could not fork!") ends the calling process.
ForkError ==
    /\ pPc = "forkfailed"
    /\ log' = Append(log, [who |-> "parent", level |-> "error", msg |-> "Could not fork!"])
    /\ pPc' = "exited"
    /\ UNCHANGED <<meterVars, concVars, program, args, envs, argv, env, pid,
                   cPc, pStdin, cStdin, execImage, cExit, status>>

\* Line 55, in the child: close(0).
ChildClose ==
    /\ cPc = "close"
    /\ cStdin' = "closed"
    /\ cPc' = "exec"
    /\ UNCHANGED <<meterVars, concVars, program, args, envs, argv, env, pid,
                   pPc, pStdin, execImage, cExit, status, log>>

\* Line 56, execvpe succeeds: the program starts with the strings of argv
\* and env and the descriptors of the child.
ChildExecOk ==
    /\ cPc = "exec"
    /\ execImage' = <<[program |-> program, argv |-> CStrings(argv),
                       env |-> CStrings(env), stdin |-> cStdin]>>
    /\ cPc' = "running"
    /\ UNCHANGED <<meterVars, concVars, program, args, envs, argv, env, pid,
                   pPc, pStdin, cStdin, cExit, status, log>>

\* Lines 56-58, execvpe returns: perror, then error("Invoking shell %s
\* failed!") ends the child.
ChildExecFails ==
    /\ cPc = "exec"
    /\ log' = Append(log, [who |-> "child", level |-> "error", msg |-> "Invoking shell failed!"])
    /\ cExit' = <<ErrorExit>>
    /\ cPc' = "terminated"
    /\ UNCHANGED <<meterVars, concVars, program, args, envs, argv, env, pid,
                   pPc, pStdin, cStdin, execImage, status>>

\* The started program ends.
ChildEnds(e) ==
    /\ cPc = "running"
    /\ cExit' = <<e>>
    /\ cPc' = "terminated"
    /\ UNCHANGED <<meterVars, concVars, program, args, envs, argv, env, pid,
                   pPc, pStdin, cStdin, execImage, status, log>>

\* Line 65: waitpid(pid, &status, 0) returns with the child's status.
ParentWait ==
    /\ pPc = "wait"
    /\ waitpidReturns(cPc)
    /\ status' = cExit
    /\ pPc' = "check"
    /\ UNCHANGED <<meterVars, concVars, program, args, envs, argv, env, pid,
                   cPc, pStdin, cStdin, execImage, cExit, log>>

\* Lines 66-75: the warning on a non-zero exit status, then the return.
ParentCheck ==
    /\ pPc = "check"
    /\ log' = log \o checkStatus(status)
    /\ pPc' = "returned"
    /\ UNCHANGED <<meterVars, concVars, program, args, envs, argv, env, pid,
                   cPc, pStdin, cStdin, execImage, cExit, status>>

NextShell ==
    \/ MakeArgv
    \/ MakeEnv
    \/ ForkOk
    \/ ForkFails
    \/ ForkError
    \/ ChildClose
    \/ ChildExecOk
    \/ ChildExecFails
    \/ \E e \in ChildEndings : ChildEnds(e)
    \/ ParentWait
    \/ ParentCheck

SpecShell == InitShell /\ [][NextShell]_vars

\* The parent is scheduled: its enabled steps are eventually taken.  The
\* child's program may run for ever.
FairSpecShell ==
    SpecShell /\ WF_vars(MakeArgv) /\ WF_vars(MakeEnv)
              /\ WF_vars(ParentWait) /\ WF_vars(ParentCheck)

-----------------------------------------------------------------------------
(* Properties of invokeShell under SpecShell and FairSpecShell.            *)

ForkFailed == pid = -1

ExecFailed ==
    \E k \in DOMAIN log : log[k].who = "child" /\ log[k].level = "error"

ChildCreated == pid > 0

ParentWarnings ==
    Cardinality({k \in DOMAIN log :
                    log[k].who = "parent" /\ log[k].level = "warning"})

\* C4: when fork fails or the exec in the child fails, invokeShell does not
\* return normally to its caller.
C4_SpawnFailureNeverReturns ==
    (ForkFailed \/ ExecFailed) => pPc # "returned"

\* C5: once the child was created and has exited, the caller is never
\* terminated by invokeShell; when it has returned it has logged exactly one
\* warning if the exit status was non-zero and none if it was zero, and it
\* logs no warning before.
C5_NonZeroExitWarnsOnce ==
    (ChildCreated /\ cExit # <<>> /\ cExit[1].exited) =>
        /\ pPc # "exited"
        /\ pPc = "returned" =>
              ParentWarnings = (IF cExit[1].code # 0 THEN 1 ELSE 0)
        /\ pPc # "returned" => ParentWarnings = 0

\* C5 witness: the started program exited with status 2 and the caller has
\* returned with one warning logged.
C5_Witness_ExitTwo ==
    /\ ChildCreated
    /\ execImage # <<>>
    /\ cExit = <<[exited |-> TRUE, code |-> 2]>>
    /\ pPc = "returned"
    /\ ParentWarnings = 1

\* C6: whenever invokeShell has returned after creating a child, the child
\* has terminated; and once a created child has terminated, invokeShell
\* eventually returns.
C6_BlocksUntilChildTerminates ==
    /\ []((pPc = "returned" /\ ChildCreated) => cPc = "terminated")
    /\ (ChildCreated /\ cPc = "terminated") ~> (pPc = "returned")

\* C6 witness: the program was started, has ended, and invokeShell has
\* returned.
C6_Witness_ReturnedAfterChild ==
    /\ ChildCreated
    /\ execImage # <<>>
    /\ cPc = "terminated"
    /\ pPc = "returned"

\* C7: the program execvpe starts has standard input closed, the argument
\* list <<program>> \o args and exactly the entries of envs as environment,
\* in order; the caller's standard input stays open throughout.
C7_ChildImage ==
    /\ pStdin = "open"
    /\ execImage # <<>> =>
          /\ execImage[1].stdin = "closed"
          /\ execImage[1].program = program
          /\ execImage[1].argv = <<program>> \o args
          /\ execImage[1].env = envs

\* C7 witness: a program was started with two arguments and an empty envs.
C7_Witness_EmptyEnv ==
    /\ execImage # <<>>
    /\ Len(args) = 2
    /\ envs = <<>>
    /\ execImage[1].env = <<>>
    /\ cStdin = "closed"

=============================================================================
